---------------------------- MODULE Spec2Model ----------------------------
(***************************************************************************)
(* A model of domainr (src/checker.go): CheckDomains drives one browser    *)
(* page through a seed search and follow-up searches, each search being    *)
(* searchWithRetry around searchAndScrape, scrapeResults and parseArticle. *)
(* Strings are sequences of one-character strings, so that ToLower,        *)
(* TrimSpace and Contains are computed as the Go library computes them.    *)
(* The registrar's site and the browser driver are the environment: every  *)
(* call to them is a nondeterministic choice over its possible outcomes.   *)
(***************************************************************************)
EXTENDS Integers, Sequences, FiniteSets, TLC

VARIABLES
    domains,      \* CheckDomains' argument: the list of input strings (the
                  \* headless flag only reaches the driver's launch options)
    pc,           \* position of the control path
    pwRunning,    \* the playwright driver process is running
    browserOpen,  \* the browser is open
    defers,       \* deferred calls registered so far by CheckDomains
    wanted,       \* checker.go:58  set of lower-cased requested domains
    found,        \* checker.go:62  map lower-cased domain -> DomainResult
    idx,          \* position of the follow-up loop (checker.go:70), 1-based
    caller,       \* which call site of searchWithRetry is active
    query,        \* searchWithRetry's query argument
    attempt,      \* searchWithRetry's loop variable (0-based)
    lastErr,      \* searchWithRetry's lastErr
    prevCount,    \* searchAndScrape's prevCount
    polls,        \* iterations of the stabilization loop done in this attempt
    title,        \* searchAndScrape's title (checker.go:135), NoTitle if unread
    articles,     \* scrapeResults' articles: the elements the query returned
    ret,          \* value returned by the last searchWithRetry
    results,      \* CheckDomains' returned list (<<>> is nil)
    err,          \* CheckDomains' returned error (Nil is nil)
    trace,        \* events of the current search: sleeps, stderr lines, calls, returns
    searches,     \* queries of the searchWithRetry calls made so far
    navs,         \* number of page.Goto calls made so far
    warnings,     \* domains of the "Warning: failed to check" lines written
    classTokens,  \* a class attribute given to parseArticle, as its tokens
    classStatus   \* the status parseArticle derives from it ("none": not yet)

vars == <<domains, pc, pwRunning, browserOpen, defers, wanted, found, idx,
          caller, query, attempt, lastErr, prevCount, polls, title, articles,
          ret, results, err, trace, searches, navs, warnings, classTokens,
          classStatus>>

\* what the program is given and never writes
input == <<domains, classTokens, classStatus>>

---------------------------------------------------------------------------
(* Bounds of the model *)

MaxDomains == 2     \* longest input list
MaxArticles == 2    \* most result elements on one page
MaxTokens == 3
MaxCount == 2       \* largest element count a stabilization poll reports

---------------------------------------------------------------------------
(* Strings *)

Upper == <<"A","B","C","D","E","F","G","H","I","J","K","L","M",
           "N","O","P","Q","R","S","T","U","V","W","X","Y","Z">>
Lower == <<"a","b","c","d","e","f","g","h","i","j","k","l","m",
           "n","o","p","q","r","s","t","u","v","w","x","y","z">>

LowerChar(c) ==
    IF \E i \in 1..26 : Upper[i] = c
    THEN Lower[CHOOSE i \in 1..26 : Upper[i] = c]
    ELSE c

ToLower(s) == [i \in 1..Len(s) |-> LowerChar(s[i])]

IsSpace(c) == c \in {" ", "\t", "\n", "\r"}

RECURSIVE TrimLeft(_)
TrimLeft(s) ==
    IF s # <<>> /\ IsSpace(Head(s)) THEN TrimLeft(Tail(s)) ELSE s

RECURSIVE TrimRight(_)
TrimRight(s) ==
    IF s # <<>> /\ IsSpace(s[Len(s)])
    THEN TrimRight(SubSeq(s, 1, Len(s) - 1))
    ELSE s

TrimSpace(s) == TrimRight(TrimLeft(s))

Contains(s, sub) ==
    \E i \in 0..(Len(s) - Len(sub)) : SubSeq(s, i + 1, i + Len(sub)) = sub

---------------------------------------------------------------------------
(* Errors: a chain of messages, outermost first, as built by %w wrapping *)

Nil == <<>>

errCloudflareBlocked == <<"blocked by Cloudflare challenge">>

ErrorsIs(e, target) ==
    \E i \in 1..Len(e) : SubSeq(e, i, Len(e)) = target

Wrap(msg, e) == <<msg>> \o e


---------------------------------------------------------------------------
(* The strings the model draws from *)

sAvailable == <<"a","v","a","i","l","a","b","l","e">>
sUnavailable == <<"u","n">> \o sAvailable
sDomainTok == <<"d","o","m","a","i","n","-","c","o">>
sJustAMoment == <<"j","u","s","t"," ","a"," ","m","o","m","e","n","t">>

a_co == <<"a",".","c","o">>
A_co == <<"A",".","c","o">>
b_io == <<"b",".","i","o">>
price1 == <<"$","1">>
price2 == <<"$","2">>

\* Page titles seen when the results never appear
TitleChallenge == <<"J","u","s","t"," ","a"," ","m","o","m","e","n","t",".",".","." >>
TitleOther == <<"N","a","m","e","c","h","e","a","p">>
TitleShouting == <<"O","n","e"," ","J","U","S","T"," ","A"," ","M","O","M","E","N","T">>
TitleNearMiss == <<"j","u","s","t"," ","a"," ","m","o","m","e","n">>
TitleEmpty == <<>>
Titles == {TitleChallenge, TitleOther, TitleShouting, TitleNearMiss, TitleEmpty}

\* the value of title before page.Title() is read
NoTitle == <<"(unread)">>

---------------------------------------------------------------------------
(* Data model *)

\* checker.go:13-19
StatusUnknown == "StatusUnknown"
StatusAvailable == "StatusAvailable"
StatusTaken == "StatusTaken"

\* checker.go:21-25; the zero value of the struct
DomainResult(d, st, p) == [Domain |-> d, Status |-> st, Price |-> p]
ZeroResult == DomainResult(<<>>, StatusUnknown, <<>>)

(* A result element as the driver shows it to parseArticle:                *)
(*   nameH2   texts of the h2 elements under .domain-name .name            *)
(*   anyH2    texts of all h2 elements of the article                      *)
(*   textErr  TextContent of the heading fails                             *)
(*   classes  the class attribute; classErr: GetAttribute fails            *)
(*   prices   texts of the elements matching .price strong                 *)
(*   priceErr TextContent of the price fails                               *)
Article(n, h, te, c, ce, p, pe) ==
    [nameH2 |-> n, anyH2 |-> h, textErr |-> te, classes |-> c,
     classErr |-> ce, prices |-> p, priceErr |-> pe]

ArtA1 == Article(<<a_co>>, <<a_co>>, FALSE,
                 sDomainTok \o <<" ">> \o sAvailable, FALSE,
                 << <<" ">> \o price1 \o <<"\n">> >>, FALSE)
ArtA2 == Article(<<>>, << <<" ">> \o A_co \o <<" ">> >>, FALSE,
                 sDomainTok \o <<" ">> \o sUnavailable, FALSE,
                 <<>>, FALSE)
ArtB == Article(<<b_io>>, <<b_io>>, FALSE,
                ToLower(sDomainTok) \o <<" ","A","V","A","I","L","A","B","L","E">>, FALSE,
                <<price2>>, FALSE)
ArtNoHeading == Article(<<>>, <<>>, FALSE, sDomainTok, FALSE, <<>>, FALSE)
ArtEmptyName == Article(<<>>, << <<" ","\n">> >>, FALSE,
                        sDomainTok \o <<" ">> \o sAvailable, FALSE,
                        <<price1>>, FALSE)

\* an element for a domain the caller did not ask for is ArtB or ArtA1 under
\* an input list without that domain
Articles == {ArtA1, ArtA2, ArtB, ArtNoHeading, ArtEmptyName}

RECURSIVE SeqsUpTo(_, _)
SeqsUpTo(S, n) ==
    IF n = 0 THEN {<<>>}
    ELSE LET shorter == SeqsUpTo(S, n - 1)
         IN shorter \cup {Append(q, x) : q \in shorter, x \in S}

\* what page.Locator("article[class*='domain-']").All() may return
Pages == SeqsUpTo(Articles, MaxArticles)

\* the validated command-line arguments (main.go:31-42): non-empty lists
InputNames == {a_co, A_co, b_io}
InputLists == SeqsUpTo(InputNames, MaxDomains) \ {<<>>}

---------------------------------------------------------------------------
(* parseArticle, checker.go:177-225 *)

\* checker.go:203-212
StatusOfClasses(classes) ==
    LET classList == ToLower(classes)
    IN IF Contains(classList, <<" ">> \o sAvailable) THEN StatusAvailable
       ELSE IF Contains(classList, <<" ">> \o sUnavailable) THEN StatusTaken
       ELSE StatusUnknown

parseArticle(article) ==
    LET nameTexts == IF Len(article.nameH2) = 0
                     THEN article.anyH2
                     ELSE article.nameH2
    IN IF Len(nameTexts) = 0
       THEN [result |-> ZeroResult, err |-> <<"no domain name found">>]
       ELSE IF article.textErr
       THEN [result |-> ZeroResult, err |-> <<"getting domain text">>]
       ELSE LET name == TrimSpace(Head(nameTexts))
                st == IF article.classErr THEN StatusUnknown
                      ELSE StatusOfClasses(article.classes)
                pr == IF Len(article.prices) > 0 /\ ~article.priceErr
                      THEN TrimSpace(Head(article.prices))
                      ELSE <<>>
            IN IF name = <<>>
               THEN [result |-> DomainResult(name, StatusUnknown, <<>>),
                     err |-> <<"empty domain name">>]
               ELSE [result |-> DomainResult(name, st, pr), err |-> Nil]

---------------------------------------------------------------------------
(* scrapeResults, checker.go:158-175 (after the element query succeeded) *)

MapPut(f, k, v) == [x \in (DOMAIN f) \cup {k} |-> IF x = k THEN v ELSE f[x]]

\* checker.go:165: the value of parseArticle(article) for each element the
\* site may show (parseArticle reads nothing but the element)
Parsed == [a \in Articles |-> parseArticle(a)]

\* scrapeOne without the wanted[key] test of checker.go:170
scrapeOne_NoFilter(article, wantedSet, foundMap) ==
    LET p == Parsed[article]
        key == ToLower(p.result.Domain)
    IN IF p.err # Nil THEN foundMap ELSE MapPut(foundMap, key, p.result)

\* checker.go:165-172, one iteration of the loop
scrapeOne(article, wantedSet, foundMap) ==
    LET p == Parsed[article]
        key == ToLower(p.result.Domain)
    IN IF p.err # Nil THEN foundMap
       ELSE IF key \in wantedSet THEN MapPut(foundMap, key, p.result)
       ELSE foundMap

\* a loop that returns at the first element that does not parse
RECURSIVE scrapeResults_StopAtFailure(_, _, _)
scrapeResults_StopAtFailure(arts, wantedSet, foundMap) ==
    IF arts = <<>> THEN foundMap
    ELSE IF Parsed[Head(arts)].err # Nil THEN foundMap
    ELSE scrapeResults_StopAtFailure(Tail(arts), wantedSet,
                                     scrapeOne(Head(arts), wantedSet, foundMap))

RECURSIVE scrapeResults(_, _, _)
scrapeResults(arts, wantedSet, foundMap) ==
    IF arts = <<>> THEN foundMap
    ELSE scrapeResults(Tail(arts), wantedSet,
                       scrapeOne(Head(arts), wantedSet, foundMap))

---------------------------------------------------------------------------
(* Program constants *)

maxRetries_OneMore == 3 + 1   \* a loop that runs once too often
PollLimit_OneMore == 5 + 1    \* a stabilization loop that runs once too often
maxRetries == 3        \* checker.go:96
PollLimit == 5         \* checker.go:146
FollowDelayMs == 1500  \* checker.go:75
BackoffUnitMs == 3000  \* checker.go:102

---------------------------------------------------------------------------
(* CheckDomains, checker.go:29-94 *)

Init ==
    /\ domains \in InputLists
    /\ pc = "run"
    /\ pwRunning = FALSE
    /\ browserOpen = FALSE
    /\ defers = <<>>
    /\ wanted = {}
    /\ found = <<>>
    /\ idx = 0
    /\ caller = "none"
    /\ query = <<>>
    /\ attempt = 0
    /\ lastErr = Nil
    /\ prevCount = 0
    /\ polls = 0
    /\ title = NoTitle
    /\ articles = <<>>
    /\ ret = Nil
    /\ results = <<>>
    /\ err = Nil
    /\ trace = <<>>
    /\ searches = <<>>
    /\ navs = 0
    /\ warnings = <<>>
    /\ classTokens = <<>>
    /\ classStatus = "none"

\* the locals of searchWithRetry and searchAndScrape
frame == <<caller, query, attempt, lastErr, prevCount, polls, title,
           articles, ret, trace>>
\* what CheckDomains returns and the resources it holds
outcome == <<pwRunning, browserOpen, defers, results, err>>

Has(ds, call) == \E i \in 1..Len(ds) : ds[i] = call

\* a return statement of CheckDomains: the deferred calls run, then the
\* caller sees (res, e)
Return(res, e) ==
    /\ pc' = "done"
    /\ results' = res
    /\ err' = e
    /\ pwRunning' = IF Has(defers, "pw.Stop") THEN FALSE ELSE pwRunning
    /\ browserOpen' = IF Has(defers, "browser.Close") THEN FALSE ELSE browserOpen
    /\ defers' = <<>>

\* the call searchWithRetry(page, q, wanted, found) from call site c;
\* before is what the call site did just before the call
CallSearch(c, q, before) ==
    /\ pc' = "retry"
    /\ caller' = c
    /\ query' = q
    /\ attempt' = 0
    /\ lastErr' = Nil
    /\ ret' = Nil
    /\ trace' = before
    /\ searches' = Append(searches, q)
    /\ UNCHANGED <<prevCount, polls, title, articles>>

\* searchWithRetry has returned and its caller has read the error: the
\* locals of the call are gone
PopSearch ==
    /\ caller' = "none"
    /\ query' = <<>>
    /\ attempt' = 0
    /\ lastErr' = Nil
    /\ ret' = Nil
    /\ trace' = <<>>
    /\ UNCHANGED <<prevCount, polls, title, articles>>

\* checker.go:30-34
DeferAfterRun == <<"pw.Stop">>

PwRun ==
    /\ pc = "run"
    /\ \/ /\ pwRunning' = TRUE
          /\ defers' = DeferAfterRun
          /\ pc' = "launch"
          /\ UNCHANGED <<browserOpen, results, err>>
       \/ Return(<<>>, Wrap("launching playwright", <<"driver error">>))
    /\ UNCHANGED <<input, wanted, found, idx, frame, searches, navs, warnings>>

\* the launch without its defer browser.Close()
DeferAfterLaunch_Forgotten(ds) == ds

\* checker.go:36-43
DeferAfterLaunch(ds) == Append(ds, "browser.Close")

Launch ==
    /\ pc = "launch"
    /\ \/ /\ browserOpen' = TRUE
          /\ defers' = DeferAfterLaunch(defers)
          /\ pc' = "newpage"
          /\ UNCHANGED <<pwRunning, results, err>>
       \/ Return(<<>>, Wrap("launching browser", <<"driver error">>))
    /\ UNCHANGED <<input, wanted, found, idx, frame, searches, navs, warnings>>

\* checker.go:58-61
BuildWanted(ds) == {ToLower(ds[i]) : i \in 1..Len(ds)}

\* checker.go:45-65: the page is created, the lookup set and the empty map
\* are built, and the seed search is called with the first domain
NewPage ==
    /\ pc = "newpage"
    /\ \/ /\ wanted' = BuildWanted(domains)
          /\ found' = <<>>
          /\ CallSearch("seed", domains[1], <<>>)
          /\ UNCHANGED outcome
       \/ /\ Return(<<>>, Wrap("creating page", <<"driver error">>))
          /\ UNCHANGED <<wanted, found, frame, searches>>
    /\ UNCHANGED <<input, idx, navs, warnings>>

\* a follow-up loop over domains[1:] only
SeedReturn_SkipFirst ==
    /\ pc = "ret"
    /\ caller = "seed"
    /\ IF ret # Nil
       THEN /\ Return(<<>>, Wrap("searching", ret))
            /\ UNCHANGED idx
       ELSE /\ pc' = "follow"
            /\ idx' = 2
            /\ UNCHANGED outcome
    /\ PopSearch
    /\ UNCHANGED <<input, wanted, found, searches, navs, warnings>>

\* the seed call site treating a failure as the follow-up call site does
SeedReturn_Ignored ==
    /\ pc = "ret"
    /\ caller = "seed"
    /\ warnings' = IF ret # Nil THEN Append(warnings, domains[1]) ELSE warnings
    /\ pc' = "follow"
    /\ idx' = 1
    /\ PopSearch
    /\ UNCHANGED <<input, wanted, found, outcome, searches, navs>>

\* checker.go:65-67
SeedReturn ==
    /\ pc = "ret"
    /\ caller = "seed"
    /\ IF ret # Nil
       THEN /\ Return(<<>>, Wrap("searching", ret))
            /\ UNCHANGED idx
       ELSE /\ pc' = "follow"
            /\ idx' = 1
            /\ UNCHANGED outcome
    /\ PopSearch
    /\ UNCHANGED <<input, wanted, found, searches, navs, warnings>>

\* the lookup of checker.go:71 without strings.ToLower
AlreadyFound_CaseSensitive(d, foundMap) == d \in DOMAIN foundMap

\* checker.go:71
AlreadyFound(d, foundMap) == ToLower(d) \in DOMAIN foundMap

\* checker.go:70-77: one iteration of the follow-up loop up to the call
FollowLoop ==
    /\ pc = "follow"
    /\ IF idx > Len(domains)
       THEN /\ pc' = "build"
            /\ UNCHANGED <<idx, frame, searches>>
       ELSE IF AlreadyFound(domains[idx], found)
       THEN /\ idx' = idx + 1
            /\ UNCHANGED <<pc, frame, searches>>
       ELSE /\ CallSearch("follow", domains[idx], << <<"sleep", FollowDelayMs>> >>)
            /\ UNCHANGED idx
    /\ UNCHANGED <<input, wanted, found, outcome, navs, warnings>>

\* the follow-up call site returning the error as the seed call site does
FollowReturn_Abort ==
    /\ pc = "ret"
    /\ caller = "follow"
    /\ IF ret # Nil
       THEN /\ Return(<<>>, Wrap("searching", ret))
            /\ UNCHANGED idx
       ELSE /\ pc' = "follow"
            /\ idx' = idx + 1
            /\ UNCHANGED outcome
    /\ PopSearch
    /\ UNCHANGED <<input, wanted, found, searches, navs, warnings>>

\* a follow-up loop that stays on a domain until its search succeeds
FollowReturn_NoAdvance ==
    /\ pc = "ret"
    /\ caller = "follow"
    /\ warnings' = IF ret # Nil THEN Append(warnings, domains[idx]) ELSE warnings
    /\ idx' = IF ret # Nil THEN idx ELSE idx + 1
    /\ pc' = "follow"
    /\ PopSearch
    /\ UNCHANGED <<input, wanted, found, outcome, searches, navs>>

\* checker.go:77-79
FollowReturn ==
    /\ pc = "ret"
    /\ caller = "follow"
    /\ warnings' = IF ret # Nil THEN Append(warnings, domains[idx]) ELSE warnings
    /\ idx' = idx + 1
    /\ pc' = "follow"
    /\ PopSearch
    /\ UNCHANGED <<input, wanted, found, outcome, searches, navs>>

\* the lookup of checker.go:85-86 without strings.ToLower
ResultFor_CaseSensitive(d, foundMap) ==
    IF d \in DOMAIN foundMap THEN foundMap[d]
    ELSE DomainResult(d, StatusUnknown, <<>>)

\* checker.go:84-91
ResultFor(d, foundMap) ==
    LET key == ToLower(d)
    IN IF key \in DOMAIN foundMap THEN foundMap[key]
       ELSE DomainResult(d, StatusUnknown, <<>>)

BuildResults(ds, foundMap) == [i \in 1..Len(ds) |-> ResultFor(ds[i], foundMap)]

\* checker.go:82-93
Finish ==
    /\ pc = "build"
    /\ Return(BuildResults(domains, found), Nil)
    /\ UNCHANGED <<input, wanted, found, idx, frame, searches, navs, warnings>>

---------------------------------------------------------------------------
(* searchWithRetry, checker.go:98-118 *)

\* a backoff counted from the attempt number instead of the attempt index
Backoff_OffByOne(att) == (att + 1) * BackoffUnitMs

\* checker.go:102
Backoff(att) == att * BackoffUnitMs

\* checker.go:100-105 and 117: the loop head; past the last attempt the
\* function gives up
RetryHead ==
    /\ pc = "retry"
    /\ IF attempt < maxRetries
       THEN /\ pc' = "goto"
            /\ trace' = IF attempt > 0
                        THEN trace \o << <<"retrying", attempt + 1>>,
                                         <<"sleep", Backoff(attempt)>> >>
                        ELSE trace
            /\ UNCHANGED ret
       ELSE /\ pc' = "ret"
            /\ ret' = Wrap("giving up", lastErr)
            /\ UNCHANGED trace
    /\ UNCHANGED <<input, wanted, found, idx, outcome, caller, query,
                   attempt, lastErr, prevCount, polls, title, articles,
                   searches, navs, warnings>>

\* a retry on every error, not only on Cloudflare blocks
ShouldRetry_AnyError(e) == e # Nil

\* checker.go:113
ShouldRetry(e) == ErrorsIs(e, errCloudflareBlocked)

\* checker.go:107-115: searchAndScrape has returned lastErr
RetryDecide ==
    /\ pc = "decide"
    /\ articles' = <<>>
    /\ title' = NoTitle
    /\ IF lastErr = Nil \/ ~ShouldRetry(lastErr)
       THEN /\ ret' = lastErr
            /\ pc' = "ret"
            /\ UNCHANGED attempt
       ELSE /\ attempt' = attempt + 1
            /\ pc' = "retry"
            /\ UNCHANGED ret
    /\ UNCHANGED <<input, wanted, found, idx, outcome, caller, query,
                   lastErr, prevCount, polls, trace, searches, navs,
                   warnings>>

---------------------------------------------------------------------------
(* searchAndScrape, checker.go:120-156 *)

\* a navigation that goes on to scrape without waiting for the results
Goto_NoWait ==
    /\ pc = "goto"
    /\ navs' = navs + 1
    /\ \/ /\ pc' = "scrape"
          /\ trace' = Append(trace, <<"goto", query>>)
          /\ UNCHANGED lastErr
       \/ LET e == Wrap("navigating to namecheap", <<"driver error">>)
          IN /\ pc' = "decide"
             /\ lastErr' = e
             /\ trace' = trace \o << <<"goto", query>>, <<"return", e>> >>
    /\ UNCHANGED <<input, wanted, found, idx, outcome, caller, query,
                   attempt, prevCount, polls, title, articles, ret, searches,
                   warnings>>

\* checker.go:121-127
Goto ==
    /\ pc = "goto"
    /\ navs' = navs + 1
    /\ \/ /\ pc' = "waitfor"
          /\ trace' = Append(trace, <<"goto", query>>)
          /\ UNCHANGED lastErr
       \/ LET e == Wrap("navigating to namecheap", <<"driver error">>)
          IN /\ pc' = "decide"
             /\ lastErr' = e
             /\ trace' = trace \o << <<"goto", query>>, <<"return", e>> >>
    /\ UNCHANGED <<input, wanted, found, idx, outcome, caller, query,
                   attempt, prevCount, polls, title, articles, ret, searches,
                   warnings>>

\* the test of checker.go:136 without strings.ToLower
WaitError_CaseSensitive(t) ==
    IF Contains(t, sJustAMoment)
    THEN Wrap("page stuck on challenge", errCloudflareBlocked)
    ELSE Wrap("waiting for results (possibly rate limited)", <<"timeout">>)

\* checker.go:133-140
WaitError(t) ==
    IF Contains(ToLower(t), sJustAMoment)
    THEN Wrap("page stuck on challenge", errCloudflareBlocked)
    ELSE Wrap("waiting for results (possibly rate limited)", <<"timeout">>)

\* checker.go:130-145
WaitFor ==
    /\ pc = "waitfor"
    /\ \/ /\ pc' = "poll"
          /\ prevCount' = 0
          /\ polls' = 0
          /\ trace' = Append(trace, <<"wait">>)
          /\ UNCHANGED <<lastErr, title>>
       \/ /\ pc' = "decide"
          /\ title' \in Titles
          /\ lastErr' = WaitError(title')
          /\ trace' = trace \o << <<"wait">>, <<"return", WaitError(title')>> >>
          /\ UNCHANGED <<prevCount, polls>>
    /\ UNCHANGED <<input, wanted, found, idx, outcome, caller, query,
                   attempt, articles, ret, searches, navs, warnings>>

\* the test of checker.go:149 without count > 0
Stable_ZeroCounts(count, prev) == count = prev

\* checker.go:149
Stable(count, prev) == count > 0 /\ count = prev

\* checker.go:146-153: one iteration of the stabilization loop
Poll ==
    /\ pc = "poll"
    /\ polls < PollLimit
    /\ \E count \in 0..MaxCount :
         /\ polls' = polls + 1
         /\ IF Stable(count, prevCount)
            THEN /\ pc' = "scrape"
                 /\ UNCHANGED prevCount
            ELSE /\ prevCount' = count
                 /\ pc' = IF polls + 1 = PollLimit THEN "scrape" ELSE "poll"
    /\ UNCHANGED <<input, wanted, found, idx, outcome, caller, query,
                   attempt, lastErr, title, articles, ret, trace, searches,
                   navs, warnings>>

\* a scrapeResults that stores elements and then reports the query error
QueryAll_StoresThenFails ==
    /\ pc = "scrape"
    /\ prevCount' = 0
    /\ polls' = 0
    /\ \/ LET e == Wrap("querying results", <<"driver error">>)
          IN /\ pc' = "decide"
             /\ lastErr' = e
             /\ trace' = trace \o << <<"scrape">>, <<"return", e>> >>
             /\ \E page \in Pages : found' = scrapeResults(page, wanted, found)
       \/ /\ pc' = "articles"
          /\ trace' = Append(trace, <<"scrape">>)
          /\ UNCHANGED <<lastErr, found>>
    /\ UNCHANGED <<input, wanted, idx, outcome, caller, query,
                   attempt, title, articles, ret, searches, navs, warnings>>

\* checker.go:155, 159-162: searchAndScrape hands over to scrapeResults
\* (its own locals are dead from here on), which queries the elements
QueryAll ==
    /\ pc = "scrape"
    /\ prevCount' = 0
    /\ polls' = 0
    /\ \/ LET e == Wrap("querying results", <<"driver error">>)
          IN /\ pc' = "decide"
             /\ lastErr' = e
             /\ trace' = trace \o << <<"scrape">>, <<"return", e>> >>
       \/ /\ pc' = "articles"
          /\ trace' = Append(trace, <<"scrape">>)
          /\ UNCHANGED lastErr
    /\ UNCHANGED <<input, wanted, found, idx, outcome, caller, query,
                   attempt, title, articles, ret, searches, navs, warnings>>

\* checker.go:159, 164-174: the elements the query returned, the loop over
\* them, and the nil that searchAndScrape passes on to searchWithRetry
ScrapeLoop ==
    /\ pc = "articles"
    /\ pc' = "decide"
    /\ articles' \in Pages
    /\ found' = scrapeResults(articles', wanted, found)
    /\ lastErr' = Nil
    /\ trace' = Append(trace, <<"return", Nil>>)
    /\ UNCHANGED <<input, wanted, idx, outcome, caller, query, attempt,
                   prevCount, polls, title, ret, searches, navs, warnings>>

---------------------------------------------------------------------------

Next ==
    \/ PwRun
    \/ Launch
    \/ NewPage
    \/ SeedReturn
    \/ FollowLoop
    \/ FollowReturn
    \/ Finish
    \/ RetryHead
    \/ RetryDecide
    \/ Goto
    \/ WaitFor
    \/ Poll
    \/ QueryAll
    \/ ScrapeLoop

Spec == Init /\ [][Next]_vars

\* every call into the driver returns and the goroutine keeps running
FairSpec == Spec /\ WF_vars(Next)

---------------------------------------------------------------------------
(* parseArticle on an element's class attribute, checker.go:203-212 *)

sAvailableSoon == sAvailable \o <<"-","s","o","o","n">>
sAVAILABLE == <<"A","V","A","I","L","A","B","L","E">>

\* class names an element may carry
ClassNames == {sAvailable, sUnavailable, sDomainTok, sAvailableSoon, sAVAILABLE}

\* the class attribute as the browser returns it: names joined by one space
RECURSIVE JoinTokens(_)
JoinTokens(tokens) ==
    IF tokens = <<>> THEN <<>>
    ELSE IF Len(tokens) = 1 THEN tokens[1]
    ELSE tokens[1] \o <<" ">> \o JoinTokens(Tail(tokens))

\* an element with a heading and the given class attribute
ArticleWithClasses(tokens) ==
    Article(<<a_co>>, <<a_co>>, FALSE, JoinTokens(tokens), FALSE, <<>>, FALSE)

InitClasses ==
    /\ domains = <<a_co>>
    /\ pc = "classes"
    /\ pwRunning = FALSE
    /\ browserOpen = FALSE
    /\ defers = <<>>
    /\ wanted = {}
    /\ found = <<>>
    /\ idx = 0
    /\ caller = "none"
    /\ query = <<>>
    /\ attempt = 0
    /\ lastErr = Nil
    /\ prevCount = 0
    /\ polls = 0
    /\ title = NoTitle
    /\ articles = <<>>
    /\ ret = Nil
    /\ results = <<>>
    /\ err = Nil
    /\ trace = <<>>
    /\ searches = <<>>
    /\ navs = 0
    /\ warnings = <<>>
    /\ classTokens \in SeqsUpTo(ClassNames, MaxTokens)
    /\ classStatus = "none"

\* one call of parseArticle, checker.go:177-225
Classify ==
    /\ pc = "classes"
    /\ classStatus' = parseArticle(ArticleWithClasses(classTokens)).result.Status
    /\ pc' = "classified"
    /\ UNCHANGED <<domains, classTokens, wanted, found, idx, frame, outcome,
                   searches, navs, warnings>>

NextClasses == Classify

SpecClasses == InitClasses /\ [][NextClasses]_vars

---------------------------------------------------------------------------
(* Observations used by the properties *)

Indices == 1..Len(domains)
Keys == DOMAIN found

\* the values searchAndScrape returned in the current searchWithRetry call
RECURSIVE Returned(_)
Returned(t) ==
    IF t = <<>> THEN <<>>
    ELSE IF Head(t)[1] = "return" THEN <<Head(t)[2]>> \o Returned(Tail(t))
    ELSE Returned(Tail(t))

\* the number of navigations of the current searchWithRetry call
Gotos(t) == Cardinality({i \in 1..Len(t) : t[i][1] = "goto"})

\* the distinguished Blocked error as searchAndScrape returns it
BlockedError == <<"page stuck on challenge", "blocked by Cloudflare challenge">>
IsBlocked(e) == e = BlockedError
NumBlocked(outs) == Cardinality({i \in 1..Len(outs) : IsBlocked(outs[i])})

InSearch == pc \in {"retry", "goto", "waitfor", "poll", "scrape", "articles"}
Succeeded == pc = "done" /\ err = Nil

---------------------------------------------------------------------------
(* Properties *)

\* C1: whenever CheckDomains returns successfully, the result list is as
\* long as the input list and result[i].Domain is exactly input[i], with
\* the caller's casing.
C1_OutputKeepsInput ==
    Succeeded =>
        /\ Len(results) = Len(domains)
        /\ \A i \in Indices : results[i].Domain = domains[i]

\* C2: first-write-wins: once a key is present in found, no later parsed
\* element replaces the stored result.
C2_FirstWriteWins ==
    [][\A k \in Keys : k \in DOMAIN found' /\ found'[k] = found[k]]_vars

\* C3: every key of found is the lower-cased form of a requested domain,
\* and a member of wanted, whatever elements the site returns.
C3_FoundWithinWanted ==
    /\ Keys \subseteq wanted
    /\ \A k \in Keys : \E i \in Indices : ToLower(domains[i]) = k

\* C3 witness: a page holding an element for a domain that was not asked
\* for has been scraped, and a requested one was stored.
C3_Witness ==
    /\ pc = "decide"
    /\ domains = <<a_co>>
    /\ articles = <<ArtB, ArtA1>>
    /\ Keys = {a_co}

\* C4: a search whose first N attempts are Blocked and whose next attempt
\* succeeds makes N+1 attempts and returns nil when N < 3; after 3 Blocked
\* attempts it returns "giving up" wrapping the last Blocked error; there
\* is never a fourth attempt.
C4_RetryCount ==
    LET outs == Returned(trace)
        n == Len(outs)
        N == NumBlocked(outs)
    IN /\ n <= 3
       /\ Gotos(trace) <= 3
       /\ Gotos(trace) \in {n, n + 1}
       /\ pc = "ret" =>
            /\ n >= 1
            /\ Gotos(trace) = n
            /\ outs[n] = Nil => (ret = Nil /\ N < 3 /\ n = N + 1)
            /\ N >= 3 => (n = 3 /\ ret = <<"giving up">> \o BlockedError)
            /\ ret = Nil => outs[n] = Nil
            /\ (ret # Nil /\ ret[1] = "giving up") => N = 3

\* C4 witness: two Blocked attempts, then a successful third one.
C4_Witness ==
    /\ pc = "ret"
    /\ ret = Nil
    /\ Returned(trace) = <<BlockedError, BlockedError, Nil>>

\* C5: an attempt failing with an error other than Blocked ends the search:
\* no attempt follows it and that same error is returned unwrapped, on the
\* first attempt and on later ones.
C5_NoRetryUnlessBlocked ==
    LET outs == Returned(trace)
        n == Len(outs)
    IN /\ \A i \in 1..(n - 1) : IsBlocked(outs[i])
       /\ InSearch => \A i \in 1..n : IsBlocked(outs[i])
       /\ (pc = "ret" /\ n >= 1 /\ outs[n] # Nil /\ ~IsBlocked(outs[n])) =>
            ret = outs[n]

\* C5 witness: a Blocked attempt, then a timeout that is not a challenge.
C5_Witness ==
    /\ pc = "ret"
    /\ Len(Returned(trace)) = 2
    /\ ret = <<"waiting for results (possibly rate limited)", "timeout">>

\* C6: when the seed search fails, CheckDomains returns an error and no
\* result list, and no other search is issued.
C6_SeedFailureFatal ==
    /\ [][(pc = "ret" /\ caller = "seed" /\ ret # Nil) =>
            /\ pc' = "done"
            /\ err' # Nil
            /\ results' = <<>>
            /\ searches' = <<domains[1]>>]_vars
    /\ [](pc = "done" /\ err # Nil => results = <<>> /\ Len(searches) <= 1)

\* C6 witness: the seed search gave up and a second domain was never
\* searched.
C6_Witness ==
    /\ pc = "done"
    /\ Len(domains) = 2
    /\ err = <<"searching", "giving up">> \o BlockedError
    /\ searches = <<domains[1]>>

\* the follow-up queries are a subsequence of the input list
InInputOrder(qs) ==
    \E f \in [1..Len(qs) -> Indices] :
        /\ \A j \in 1..Len(qs) : domains[f[j]] = qs[j]
        /\ \A j \in 1..(Len(qs) - 1) : f[j] < f[j + 1]

\* C7: a failed follow-up search does not abort the run: a warning is
\* written, the later unresolved domains are still searched in input
\* order, a result list is returned without error, and the failed domain
\* is Unknown without price unless some search resolved it.
C7_FollowFailureRecovered ==
    /\ [][(pc = "ret" /\ caller = "follow" /\ ret # Nil) =>
            /\ warnings' = Append(warnings, domains[idx])
            /\ pc' = "follow"
            /\ idx' = idx + 1]_vars
    /\ [](warnings # <<>> => (pc = "done" => err = Nil))
    /\ [](Succeeded =>
            /\ Len(results) = Len(domains)
            /\ InInputOrder(Tail(searches))
            /\ \A i \in Indices :
                 ToLower(domains[i]) \notin Keys =>
                    /\ \E j \in 2..Len(searches) : searches[j] = domains[i]
                    /\ results[i].Status = StatusUnknown
                    /\ results[i].Price = <<>>)

\* C7 witness: the follow-up search for the first of two domains failed,
\* the second one was searched after it, and the run returned its list.
C7_Witness ==
    /\ Succeeded
    /\ Len(domains) = 2
    /\ warnings = <<domains[1]>>
    /\ searches = <<domains[1], domains[1], domains[2]>>
    /\ results[1].Status = StatusUnknown
    /\ results[2].Status # StatusUnknown

\* C8: no follow-up search is issued for a domain whose lower-cased key is
\* in found when its turn comes; keys never leave found, so a seed page
\* holding every requested domain leaves the run with one search.
C8_FanOutSuppressesFollowUps ==
    /\ [][Keys \subseteq DOMAIN found']_vars
    /\ [][(searches' # searches /\ searches # <<>>) =>
            /\ searches' = Append(searches, domains[idx])
            /\ ToLower(domains[idx]) \notin Keys]_vars
    /\ []((caller = "follow" /\ InSearch) => ToLower(query) \notin Keys)

\* C8 witness: input [a.co, b.io], both found on the seed page, one search.
C8_Witness ==
    /\ Succeeded
    /\ domains = <<a_co, b_io>>
    /\ Keys = {a_co, b_io}
    /\ searches = <<a_co>>

\* C9: on success the i-th result is the entry of found under the
\* lower-cased input[i] if there is one, and otherwise Unknown with an
\* empty price; inputs differing only in case get the same status and price.
C9_OutputAssembly ==
    Succeeded =>
        /\ \A i \in Indices :
             LET k == ToLower(domains[i])
             IN IF k \in Keys
                THEN results[i] = found[k]
                ELSE results[i] = [Domain |-> domains[i],
                                   Status |-> StatusUnknown,
                                   Price |-> <<>>]
        /\ \A i, j \in Indices :
             ToLower(domains[i]) = ToLower(domains[j]) =>
                /\ results[i].Status = results[j].Status
                /\ results[i].Price = results[j].Price

\* C9 witness: two inputs differing in case only, both resolved.
C9_Witness ==
    /\ Succeeded
    /\ domains = <<A_co, a_co>>
    /\ results[1].Status = StatusTaken
    /\ results[2].Status = StatusTaken

\* C10: every return of CheckDomains leaves the driver stopped and the
\* browser closed.
C10_ScopedTeardown ==
    pc = "done" => (~pwRunning /\ ~browserOpen /\ defers = <<>>)

\* C10 witness: the return after a failed seed search, with driver and
\* browser both started before.
C10_Witness ==
    /\ pc = "done"
    /\ err # Nil
    /\ err[1] = "searching"
    /\ searches # <<>>
    /\ ~pwRunning
    /\ ~browserOpen

\* C11 as stated: the follow-up step searches only for the domains after
\* the first, so the first domain is never searched a second time.
C11_FirstSearchedOnce ==
    caller = "follow" => idx > 1

\* C11 as amended: the seed search has the first domain as its query, and
\* the follow-up loop runs over every input domain, the first included:
\* once the loop is past position 1, the first domain is in found or was
\* the query of the second search; each position is searched at most once.
C11_FirstSearchedAgain ==
    /\ searches # <<>> => searches[1] = domains[1]
    /\ caller = "follow" =>
         /\ idx \in Indices
         /\ query = domains[idx]
         /\ searches[Len(searches)] = domains[idx]
    /\ idx >= 2 =>
         \/ ToLower(domains[1]) \in Keys
         \/ Len(searches) >= 2 /\ searches[2] = domains[1]
    /\ Len(searches) <= 1 + idx

\* C11 witness: the seed search succeeded without the first domain on its
\* page, and the first domain was searched again.
C11_Witness ==
    /\ pc = "follow"
    /\ idx = 2
    /\ Len(domains) = 2
    /\ warnings = <<>>
    /\ searches = <<domains[1], domains[1]>>
    /\ ToLower(domains[1]) \notin Keys

\* C12: the stabilization loop makes at most 5 polls, whatever counts the
\* page reports, and then hands over to the scraper; an attempt whose
\* counts never stabilize has not returned an error at the hand-over.
C12_StabilizationTerminates ==
    /\ polls <= 5
    /\ pc = "poll" => polls < 5
    /\ pc = "scrape" =>
         /\ polls >= 1
         /\ Gotos(trace) = Len(Returned(trace)) + 1
         /\ trace[Len(trace)] = <<"wait">>

\* C12 witness: five polls, the last of them reporting zero elements.
C12_Witness ==
    /\ pc = "scrape"
    /\ polls = 5
    /\ prevCount = 0

\* C13: a poll ends the loop before the 5th poll exactly when it reports
\* the same non-zero count as the poll before it; the first poll never
\* ends it and two polls reporting zero do not end it.  (prevCount is the
\* count of the poll before, prevCount' the count of this poll.)
C13_EarlyExit ==
    /\ [][pc = "poll" =>
            /\ polls' = polls + 1
            /\ (pc' = "scrape" /\ polls' < 5) <=>
                  (polls' < 5 /\ polls >= 1 /\ prevCount' = prevCount
                     /\ prevCount' > 0)
            /\ pc' # "scrape" => pc' = "poll"]_vars
    /\ [](pc = "scrape" => polls >= 2)

\* C13 witness: the loop ended at its second poll on a repeated count.
C13_Witness ==
    /\ pc = "scrape"
    /\ polls = 2
    /\ prevCount = 1

\* the titles of the model that contain "just a moment" in some casing
ChallengeTitles == {TitleChallenge, TitleShouting}

\* C14: after a timeout of the wait the attempt fails with the Blocked
\* error if and only if the title contains "just a moment" in any casing,
\* and with a generic error otherwise; no other path yields Blocked.
C14_ChallengeClassification ==
    pc = "decide" =>
       /\ title # NoTitle =>
            /\ title \in ChallengeTitles <=> IsBlocked(lastErr)
            /\ title \notin ChallengeTitles =>
                 (lastErr # Nil /\ ~ErrorsIs(lastErr, errCloudflareBlocked))
       /\ (lastErr # Nil /\ ErrorsIs(lastErr, errCloudflareBlocked)) =>
            (title # NoTitle /\ trace[Len(trace) - 1] = <<"wait">>)

\* C14 witness: a challenge title in another casing was classified Blocked.
C14_Witness ==
    /\ pc = "decide"
    /\ title = TitleShouting
    /\ IsBlocked(lastErr)

GotosBefore(t, i) == Cardinality({j \in 1..(i - 1) : t[j][1] = "goto"})

\* C15: within one search, attempt 1 follows no diagnostic and no backoff
\* (only the call site's delay); attempt k = 2, 3 follows, in this order,
\* the return of attempt k-1, one diagnostic naming k and a wait of
\* (k-1)*3 s; nothing is waited after the last attempt has returned.
C15_BackoffOrdering ==
    /\ \A i \in 1..Len(trace) :
         /\ trace[i][1] = "goto" =>
              LET k == GotosBefore(trace, i) + 1
              IN IF k = 1
                 THEN \/ i = 1
                      \/ i = 2 /\ caller = "follow" /\ trace[1] = <<"sleep", 1500>>
                 ELSE /\ i >= 4
                      /\ trace[i - 1] = <<"sleep", (k - 1) * 3000>>
                      /\ trace[i - 2] = <<"retrying", k>>
                      /\ trace[i - 3][1] = "return"
         /\ trace[i][1] = "retrying" =>
              /\ i < Len(trace)
              /\ trace[i + 1][1] = "sleep"
              /\ i + 2 <= Len(trace) => trace[i + 2][1] = "goto"
         /\ (trace[i][1] = "sleep" /\ i > 1) =>
              (trace[i - 1][1] = "retrying" /\ trace[i][2] \in {3000, 6000})
    /\ pc = "ret" => trace[Len(trace)][1] = "return"

\* C15 witness: a seed search that gave up after its third attempt.
C15_Witness ==
    /\ pc = "ret"
    /\ caller = "seed"
    /\ Gotos(trace) = 3
    /\ ret = <<"giving up">> \o BlockedError

\* what the elements of the model hold, read off their definitions
FailingArticles == {ArtNoHeading, ArtEmptyName}
ExpectedKey(a) == IF a = ArtB THEN b_io ELSE a_co

\* C16: once the element query succeeded, scrapeResults returns nil
\* whatever elements fail to parse, and every element that parses and is
\* wanted is stored; an error comes only from the element query.
C16_ParseFailuresSwallowed ==
    /\ [][pc = "articles" =>
            /\ pc' = "decide"
            /\ lastErr' = Nil
            /\ \A i \in 1..Len(articles') :
                 (/\ articles'[i] \notin FailingArticles
                  /\ ExpectedKey(articles'[i]) \in wanted)
                    => ExpectedKey(articles'[i]) \in DOMAIN found']_vars
    /\ [][(pc = "scrape" /\ pc' = "decide") =>
            lastErr' = <<"querying results", "driver error">>]_vars

\* C16 witness: the seed page held an element without heading before a
\* wanted one, and the wanted one was stored.
C16_Witness ==
    /\ pc = "decide"
    /\ searches = <<a_co>>
    /\ articles = <<ArtNoHeading, ArtA1>>
    /\ lastErr = Nil
    /\ a_co \in Keys

TimeoutError == <<"waiting for results (possibly rate limited)", "timeout">>
NavError == <<"navigating to namecheap", "driver error">>

\* C18: in every attempt the steps come in the order navigate, wait,
\* stabilize, scrape; the scraper is called only after a navigation and a
\* wait of the same attempt succeeded, never in an attempt that returned
\* Blocked or the timeout error.
C18_StepOrdering ==
    /\ [][/\ pc' = "goto" => pc \in {"retry", "goto"}
          /\ pc' = "waitfor" => pc \in {"goto", "waitfor"}
          /\ pc' = "poll" => pc \in {"waitfor", "poll"}
          /\ pc' = "scrape" => pc \in {"poll", "scrape"}
          /\ pc' = "articles" => pc \in {"scrape", "articles"}]_vars
    /\ [](\A i \in 1..Len(trace) :
            /\ trace[i] = <<"wait">> => (i >= 2 /\ trace[i - 1][1] = "goto")
            /\ trace[i] = <<"scrape">> =>
                 (i >= 3 /\ trace[i - 1] = <<"wait">> /\ trace[i - 2][1] = "goto")
            /\ (trace[i][1] = "return"
                  /\ trace[i][2] \in {BlockedError, TimeoutError}) =>
                 trace[i - 1] = <<"wait">>
            /\ (trace[i][1] = "return" /\ trace[i][2] = NavError) =>
                 trace[i - 1][1] = "goto")
    /\ [](pc \in {"poll", "scrape"} => trace[Len(trace)] = <<"wait">>)
    /\ [](pc = "scrape" => polls >= 1)
    /\ [](pc = "articles" => trace[Len(trace)] = <<"scrape">>)

\* C18 witness: a Blocked attempt without scrape, then a full attempt.
C18_Witness ==
    /\ pc = "decide"
    /\ articles # <<>>
    /\ Returned(trace) = <<BlockedError, Nil>>
    /\ Gotos(trace) = 2

\* C19: found changes only in the step in which scrapeResults returns nil;
\* an attempt that returns an error never looped over elements, and a
\* search that returns an error had no successful attempt.
C19_FailedAttemptKeepsFound ==
    /\ [][found' # found =>
            /\ pc = "articles"
            /\ pc' = "decide"
            /\ lastErr' = Nil
            /\ trace' = Append(trace, <<"return", Nil>>)]_vars
    /\ [](pc = "decide" /\ lastErr # Nil => articles = <<>>)
    /\ [](pc = "ret" /\ ret # Nil =>
            \A i \in 1..Len(Returned(trace)) : Returned(trace)[i] # Nil)

\* C19 witness: a follow-up search gave up while found held the entries of
\* the seed search.
C19_Witness ==
    /\ pc = "ret"
    /\ caller = "follow"
    /\ ret = <<"giving up">> \o BlockedError
    /\ Keys # {}

\* the status a class list has when read as a set of names
HasName(tokens, name) == \E i \in 1..Len(tokens) : ToLower(tokens[i]) = name
StatusByNames(tokens) ==
    IF HasName(tokens, sAvailable) THEN StatusAvailable
    ELSE IF HasName(tokens, sUnavailable) THEN StatusTaken
    ELSE StatusUnknown

\* C17: parseArticle yields Available when the class list holds the name
\* "available" at any position, Taken when it holds "unavailable", Unknown
\* otherwise, compared case-insensitively; a name that only contains
\* "available" does not count.
C17_StatusByDistinctToken ==
    classStatus # "none" => classStatus = StatusByNames(classTokens)

\* C20: a run issues at most n+1 searches and at most 3*(n+1) navigations
\* for n input domains, and under fair scheduling it reaches its end.
C20_BoundedWork ==
    /\ [](/\ Len(searches) <= Len(domains) + 1
          /\ navs <= 3 * (Len(domains) + 1))
    /\ <>(pc = "done")

\* C20 witness: a finished run that used every search and every navigation.
C20_Witness ==
    /\ pc = "done"
    /\ Len(domains) = 2
    /\ Len(searches) = 3
    /\ navs = 9
    /\ err = Nil

=============================================================================
